---------------------------- MODULE Spec2Model ----------------------------
(***************************************************************************)
(* qumupam: per-user package visibility manager for a multi-user device.   *)
(*                                                                         *)
(* The repository holds two entry points: main() of the qumupam package    *)
(* (src/qumupam/__main__.py with src/qumupam/utilities.py) and _main() of  *)
(* the older single-file script (src/qumupam.py).  One run of either is    *)
(* modelled as a state machine; the variable script says which one runs.   *)
(*                                                                         *)
(* The device (adb shell pm) is the environment: which packages it knows,  *)
(* which of them each user sees, and what each pm call answers.            *)
(***************************************************************************)
EXTENDS Integers, Sequences, FiniteSets, Bags, TLC

(***************************************************************************)
(* Bounds of the model.                                                    *)
(***************************************************************************)
MaxUsers == 2
NumNames == 2
MaxLabelFailures == 1
ScanUsers == 3
ScanNames == 3

Names == 1..NumNames

(***************************************************************************)
(* Python None for an Optional[str] label and for an Optional[int] uid.    *)
(***************************************************************************)
NoLabel == "None"
NoUid == -1

(***************************************************************************)
(* class Package(NamedTuple): name, label.  A NamedTuple compares and      *)
(* hashes as the tuple (name, label); a TLA+ record models exactly that.   *)
(* A resolved label is a function of the name (the apk's label).           *)
(***************************************************************************)
LabelOf(name) == "label"

Package(name, label) == [name |-> name, label |-> label]

AllPackageValues == [name : Names, label : {NoLabel, LabelOf(1)}]

NamesOf(packages) == {p.name : p \in packages}

(***************************************************************************)
(* class User(NamedTuple): name, uid, packages.  The display name plays no *)
(* part in any computation and is left out.                                *)
(***************************************************************************)
User(uid, packages) == [uid |-> uid, packages |-> packages]

(***************************************************************************)
(* pm list users reports the owner (uid 0) first, then secondary users,    *)
(* which Android numbers from 10.                                          *)
(***************************************************************************)
UidOf(i) == IF i = 1 THEN 0 ELSE 8 + i

Uids(n) == {UidOf(i) : i \in 1..n}

VARIABLES
    script,             \* "main" (qumupam package) or "legacy" (qumupam.py)
    pc,                 \* position of the run in main() / _main()
    present,            \* device: names of the third-party packages it knows
    visible,            \* device: uid -> names visible to that user
    label_delay,        \* device: name -> number of label lookups that fail
    all_packages,       \* all_packages = get_packages()
    users,              \* users = get_users()
    answers,            \* answers of the last inq.prompt: unset / None / given
    user,               \* position in users of the chosen User, 0 if none
    mode,               \* Mode, "None", or "unset" before the prompt
    new_packages,       \* the checklist selection
    pending_install,
    pending_uninstall,
    preserve_data,      \* "True" / "False" / "None"
    unsafe_to_uninstall,
    pending_unsafe,
    remove_packages,
    inp,                \* text typed at input("> ") / input("Confirmation: ")
    todo,               \* packages the running for loop has not reached yet
    errors_encountered,
    issued              \* bag of the pm calls made: command and answer

vars == <<script, pc, present, visible, label_delay, all_packages, users,
          answers, user, mode, new_packages, pending_install,
          pending_uninstall, preserve_data, unsafe_to_uninstall,
          pending_unsafe, remove_packages, inp, todo, errors_encountered,
          issued>>


(***************************************************************************)
(* get_apk_label is memoised by cachier, which serves a stored result only *)
(* when it is not None: a lookup that failed (CalledProcessError, or no    *)
(* application-label line) is tried again by the next call, a lookup that  *)
(* succeeded is answered from the cache from then on.  For one apk the     *)
(* lookups of a run therefore fail label_delay[name] times and succeed     *)
(* afterwards; lookups counts the earlier lookups of that apk in the run.  *)
(***************************************************************************)
get_apk_label(name, lookups) ==
    IF lookups < label_delay[name] THEN NoLabel ELSE LabelOf(name)

(***************************************************************************)
(* Earlier label lookups of a name when get_users lists user number i:     *)
(* the catalog listing (main() calls get_packages() before get_users())    *)
(* and the listings of the users before i that see the name.               *)
(***************************************************************************)
LookupsBefore(name, i) ==
    1 + Cardinality({j \in 1..(i - 1) : name \in visible[UidOf(j)]})

(***************************************************************************)
(* get_packages(uid): the package set parsed from pm list packages.        *)
(* uid = NoUid lists every package the device knows (-a), otherwise the    *)
(* packages visible to that user.  The legacy script lists bare names      *)
(* (no -f, no label), written here as packages without a label.            *)
(***************************************************************************)
get_packages(i) ==
    LET listed == IF i = 0 THEN present ELSE visible[UidOf(i)]
    IN  IF script = "main"
        THEN {Package(n, get_apk_label(n, IF i = 0 THEN 0 ELSE LookupsBefore(n, i))) :
                  n \in listed}
        ELSE {Package(n, NoLabel) : n \in listed}

(***************************************************************************)
(* get_users(): one User per line of pm list users, in the device's order. *)
(***************************************************************************)
get_users ==
    [i \in 1..Cardinality(DOMAIN visible) |-> User(UidOf(i), get_packages(i))]

(***************************************************************************)
(* A faulty scan that remembers only the previous user's packages          *)
(* (seen = user.packages instead of seen.update(user.packages)).           *)
(***************************************************************************)
RECURSIVE UnsafeScan_SeenReplaced(_, _, _, _)
UnsafeScan_SeenReplaced(us, k, seen, safe) ==
    IF k > Len(us) THEN UNION {us[i].packages : i \in 1..Len(us)} \ safe
    ELSE UnsafeScan_SeenReplaced(us, k + 1,
                                 us[k].packages,
                                 safe \cup (us[k].packages \cap seen))

(***************************************************************************)
(* get_unsafe_to_uninstall(users): the incremental seen/safe scan.         *)
(***************************************************************************)
RECURSIVE UnsafeScan(_, _, _, _)
UnsafeScan(us, k, seen, safe) ==
    IF k > Len(us) THEN seen \ safe
    ELSE UnsafeScan(us, k + 1,
                    seen \cup us[k].packages,
                    safe \cup (us[k].packages \cap seen))

get_unsafe_to_uninstall(us) == UnsafeScan(us, 1, {}, {})

(***************************************************************************)
(* The device before the run.                                              *)
(***************************************************************************)
(***************************************************************************)
(* Label lookups a run makes for a name: one by the catalog listing and    *)
(* one by the listing of each user that sees it.  A delay of that many     *)
(* lookups already means that the run never sees the label.                *)
(***************************************************************************)
Lookups(name) ==
    IF name \in present
    THEN 1 + Cardinality({u \in DOMAIN visible : name \in visible[u]})
    ELSE 0

LabelDelays ==
    {d \in [Names -> 0..(MaxUsers + 1)] :
        Cardinality({n \in Names : d[n] > 0}) <= MaxLabelFailures}

Init ==
    /\ script \in {"main", "legacy"}
    /\ pc = "gather"
    /\ present \in SUBSET Names
    /\ \E n \in 0..MaxUsers : visible \in [Uids(n) -> SUBSET present]
    /\ label_delay \in LabelDelays
    /\ script = "legacy" => \A n \in Names : label_delay[n] = 0
    /\ \A n \in Names : label_delay[n] <= Lookups(n)
    /\ all_packages = {}
    /\ users = <<>>
    /\ answers = "unset"
    /\ user = 0
    /\ mode = "unset"
    /\ new_packages = {}
    /\ pending_install = {}
    /\ pending_uninstall = {}
    /\ preserve_data = "True"
    /\ unsafe_to_uninstall = {}
    /\ pending_unsafe = {}
    /\ remove_packages = FALSE
    /\ inp = "unset"
    /\ todo = {}
    /\ errors_encountered = FALSE
    /\ issued = EmptyBag

(***************************************************************************)
(* all_packages = get_packages(); users = get_users()                      *)
(***************************************************************************)
GatherPackageInformation ==
    /\ pc = "gather"
    /\ all_packages' = get_packages(0)
    /\ users' = get_users
    /\ pc' = "prompt_user"
    /\ UNCHANGED <<script, present, visible, label_delay, answers, user, mode,
                   new_packages, pending_install, pending_uninstall,
                   preserve_data, unsafe_to_uninstall, pending_unsafe,
                   remove_packages, inp, todo, errors_encountered, issued>>

(***************************************************************************)
(* Faulty variants of the pending sets: InstallAll without the difference  *)
(* against the current set; Select installing the whole selection; Select  *)
(* uninstalling the whole current set.                                     *)
(***************************************************************************)
PendingInstall_AllOfCatalog(m, catalog, current, selection) ==
    CASE m = "InstallAll"   -> catalog
      [] m = "UninstallAll" -> {}
      [] m = "Select"       -> selection \ current

PendingInstall_WholeSelection(m, catalog, current, selection) ==
    CASE m = "InstallAll"   -> catalog \ current
      [] m = "UninstallAll" -> {}
      [] m = "Select"       -> selection

PendingUninstall_WholeCurrent(m, catalog, current, selection) ==
    CASE m = "InstallAll"   -> {}
      [] m = "UninstallAll" -> current
      [] m = "Select"       -> current

(***************************************************************************)
(* The pending sets of the three modes, as main() and _main() compute them *)
(* from all_packages, user.packages and the checklist selection.           *)
(***************************************************************************)
PendingInstall(m, catalog, current, selection) ==
    CASE m = "InstallAll"   -> catalog \ current
      [] m = "UninstallAll" -> {}
      [] m = "Select"       -> selection \ current

PendingUninstall(m, catalog, current, selection) ==
    CASE m = "InstallAll"   -> {}
      [] m = "UninstallAll" -> current
      [] m = "Select"       -> current \ selection

(***************************************************************************)
(* user = prompt_for_user(users).  choices[0] of an empty list raises      *)
(* IndexError; inq.prompt answers None when the operator cancels.          *)
(***************************************************************************)
PromptForUser ==
    /\ pc = "prompt_user"
    /\ \/ /\ Len(users) = 0
          /\ pc' = "crashed"
          /\ UNCHANGED <<answers, user>>
       \/ /\ Len(users) > 0
          /\ answers' = "None"
          /\ pc' = "cancelled"
          /\ UNCHANGED user
       \/ /\ Len(users) > 0
          /\ answers' = "given"
          /\ user' \in 1..Len(users)
          /\ pc' = "prompt_mode"
    /\ UNCHANGED <<script, present, visible, label_delay, all_packages, users,
                   mode, new_packages, pending_install, pending_uninstall,
                   preserve_data, unsafe_to_uninstall, pending_unsafe,
                   remove_packages, inp, todo, errors_encountered, issued>>

(***************************************************************************)
(* mode = prompt_for_mode(), and for InstallAll and UninstallAll the       *)
(* pending sets.  Select goes on to the checklist.                         *)
(***************************************************************************)
PromptForMode ==
    /\ pc = "prompt_mode"
    /\ \/ /\ answers' = "None"
          /\ mode' = "None"
          /\ pc' = "cancelled"
          /\ UNCHANGED <<pending_install, pending_uninstall>>
       \/ /\ answers' = "given"
          /\ mode' \in {"InstallAll", "UninstallAll"}
          /\ pending_install' =
                 PendingInstall(mode', all_packages, users[user].packages, {})
          /\ pending_uninstall' =
                 PendingUninstall(mode', all_packages, users[user].packages, {})
          /\ pc' = "preserve"
       \/ /\ answers' = "given"
          /\ mode' = "Select"
          /\ pc' = "prompt_packages"
          /\ UNCHANGED <<pending_install, pending_uninstall>>
    /\ UNCHANGED <<script, present, visible, label_delay, all_packages, users,
                   user, new_packages, preserve_data, unsafe_to_uninstall,
                   pending_unsafe, remove_packages, inp, todo,
                   errors_encountered, issued>>

(***************************************************************************)
(* new_packages = prompt_for_packages(all_packages, user.packages): the    *)
(* checklist offers all_packages, so the answer is a subset of it.         *)
(***************************************************************************)
PromptForPackages ==
    /\ pc = "prompt_packages"
    /\ \/ /\ answers' = "None"
          /\ pc' = "cancelled"
          /\ UNCHANGED <<new_packages, pending_install, pending_uninstall>>
       \/ /\ answers' = "given"
          /\ new_packages' \in SUBSET all_packages
          /\ pending_install' =
                 PendingInstall(mode, all_packages, users[user].packages,
                                new_packages')
          /\ pending_uninstall' =
                 PendingUninstall(mode, all_packages, users[user].packages,
                                  new_packages')
          /\ pc' = "preserve"
    /\ UNCHANGED <<script, present, visible, label_delay, all_packages, users,
                   user, mode, preserve_data, unsafe_to_uninstall,
                   pending_unsafe, remove_packages, inp, todo,
                   errors_encountered, issued>>

(***************************************************************************)
(* What follows the preserve-data question.  main() computes the unsafe    *)
(* packages and the unsafe part of pending_uninstall (PendingUnsafe; its   *)
(* faulty variant takes every unsafe package of the device), and asks for  *)
(* a disposition when that part is not empty; _main() starts the install   *)
(* loop at once.                                                           *)
(***************************************************************************)
PendingUnsafe_AllUnsafe(uninstalls, unsafe) == unsafe

PendingUnsafe(uninstalls, unsafe) == uninstalls \cap unsafe

AfterPreserveData ==
    IF script = "main"
    THEN /\ unsafe_to_uninstall' = get_unsafe_to_uninstall(users)
         /\ pending_unsafe' = PendingUnsafe(pending_uninstall, unsafe_to_uninstall')
         /\ IF pending_unsafe' # {}
            THEN pc' = "disposition" /\ todo' = todo
            ELSE pc' = "install" /\ todo' = pending_install
    ELSE /\ pc' = "install"
         /\ todo' = pending_install
         /\ UNCHANGED <<unsafe_to_uninstall, pending_unsafe>>

(***************************************************************************)
(* A faulty variant without the return: the run goes on after a cancelled  *)
(* preserve-data question.                                                 *)
(***************************************************************************)
PreserveDataIsNone_NoReturn == AfterPreserveData

(***************************************************************************)
(* if preserve_data is None: return                                        *)
(***************************************************************************)
PreserveDataIsNone ==
    /\ pc' = "cancelled"
    /\ UNCHANGED <<unsafe_to_uninstall, pending_unsafe, todo>>

(***************************************************************************)
(* preserve_data = True; asked only when pending_uninstall is not empty.   *)
(***************************************************************************)
PromptForPreserveData ==
    /\ pc = "preserve"
    /\ pending_uninstall # {}
    /\ \/ /\ answers' = "None"
          /\ preserve_data' = "None"
          /\ PreserveDataIsNone
       \/ /\ answers' = "given"
          /\ preserve_data' \in {"True", "False"}
          /\ AfterPreserveData
    /\ UNCHANGED <<script, present, visible, label_delay, all_packages, users,
                   user, mode, new_packages, pending_install,
                   pending_uninstall, remove_packages, inp,
                   errors_encountered, issued>>

NoUninstallPending ==
    /\ pc = "preserve"
    /\ pending_uninstall = {}
    /\ AfterPreserveData
    /\ UNCHANGED <<script, present, visible, label_delay, all_packages, users,
                   answers, user, mode, new_packages, pending_install,
                   pending_uninstall, preserve_data, remove_packages, inp,
                   errors_encountered, issued>>

(***************************************************************************)
(* Texts the operator may type at input().                                 *)
(***************************************************************************)
TypedTexts == {"remove", "break", ""}

(***************************************************************************)
(* inp = input("> ") of main(): remove / break / anything else (skip).     *)
(* In UninstallAll mode pending_uninstall is the very set object           *)
(* user.packages (pending_uninstall = user.packages), so the in-place      *)
(* difference_update of skip changes that user's packages in users too.    *)
(***************************************************************************)
UnsafeDisposition ==
    /\ pc = "disposition"
    /\ inp' \in TypedTexts
    /\ remove_packages' = (inp' = "remove")
    /\ IF inp' \notin {"remove", "break"}
       THEN /\ pending_uninstall' = pending_uninstall \ pending_unsafe
            /\ users' = IF mode = "UninstallAll"
                        THEN [users EXCEPT ![user].packages = @ \ pending_unsafe]
                        ELSE users
       ELSE UNCHANGED <<pending_uninstall, users>>
    /\ pc' = "install"
    /\ todo' = pending_install
    /\ UNCHANGED <<script, present, visible, label_delay, all_packages,
                   answers, user, mode, new_packages, pending_install,
                   preserve_data, unsafe_to_uninstall, pending_unsafe,
                   errors_encountered, issued>>

(***************************************************************************)
(* The pm commands.  install_existing(package, uid) and                    *)
(* uninstall(package, uid, preserve_data) pass package.name; --user is     *)
(* given unless uid is None, -k when preserve_data is true.                *)
(***************************************************************************)
install_existing(package, uid) ==
    [op |-> "install-existing", user |-> uid, keep |-> FALSE,
     name |-> package.name]

uninstall(package, uid, preserve) ==
    [op |-> "uninstall", user |-> uid, keep |-> (preserve = "True"),
     name |-> package.name]

(***************************************************************************)
(* What a pm call can do: answer its success line after doing the work,    *)
(* answer a failure line after doing nothing, or exit non-zero, which      *)
(* check_output turns into CalledProcessError.                             *)
(***************************************************************************)
InstalledText == "Package p installed for user: u"
SuccessText == "Success"
FailureText == "Failure [INTERNAL_ERROR]"
CalledProcessError == "CalledProcessError"

Outcomes(cmd) ==
    {IF cmd.op = "install-existing" THEN InstalledText ELSE SuccessText,
     FailureText, CalledProcessError}

install_success_regex(output) == output = InstalledText

uninstall_success_regex(output) == output = SuccessText

(***************************************************************************)
(* The device after a command that answered output: install-existing       *)
(* shows the package to the user, a scoped uninstall hides it from the     *)
(* user, an unscoped uninstall removes it from the device.                 *)
(***************************************************************************)
VisibleAfter(cmd, output) ==
    CASE output = InstalledText /\ cmd.op = "install-existing" ->
             [visible EXCEPT ![cmd.user] = @ \cup {cmd.name}]
      [] output = SuccessText /\ cmd.op = "uninstall" /\ cmd.user # NoUid ->
             [visible EXCEPT ![cmd.user] = @ \ {cmd.name}]
      [] output = SuccessText /\ cmd.op = "uninstall" /\ cmd.user = NoUid ->
             [u \in DOMAIN visible |-> visible[u] \ {cmd.name}]
      [] OTHER -> visible

PresentAfter(cmd, output) ==
    IF output = SuccessText /\ cmd.op = "uninstall" /\ cmd.user = NoUid
    THEN present \ {cmd.name}
    ELSE present

RunPm(cmd, output) ==
    /\ issued' = issued (+) SetToBag({[cmd |-> cmd, output |-> output]})
    /\ visible' = VisibleAfter(cmd, output)
    /\ present' = PresentAfter(cmd, output)

(***************************************************************************)
(* A faulty install round that gives up the rest of the batch when the     *)
(* answer is not the success line.                                         *)
(***************************************************************************)
InstallStep_AbortOnFailure(package, output) ==
    /\ RunPm(install_existing(package, users[user].uid), output)
    /\ IF output = CalledProcessError
       THEN pc' = "crashed" /\ UNCHANGED <<todo, errors_encountered>>
       ELSE /\ todo' = IF install_success_regex(output) THEN todo \ {package} ELSE {}
            /\ errors_encountered' =
                   (errors_encountered \/ ~install_success_regex(output))
            /\ pc' = pc

(***************************************************************************)
(* One round of: for package in pending_install.  The set is iterated in   *)
(* an order the program does not choose.                                   *)
(***************************************************************************)
InstallStep(package, output) ==
    /\ RunPm(install_existing(package, users[user].uid), output)
    /\ IF output = CalledProcessError
       THEN pc' = "crashed" /\ UNCHANGED <<todo, errors_encountered>>
       ELSE /\ todo' = todo \ {package}
            /\ errors_encountered' =
                   (errors_encountered \/ ~install_success_regex(output))
            /\ pc' = pc

InstallExisting ==
    /\ pc = "install"
    /\ \E package \in todo :
          \E output \in Outcomes(install_existing(package, users[user].uid)) :
              InstallStep(package, output)
    /\ UNCHANGED <<script, label_delay, all_packages, users, answers, user,
                   mode, new_packages, pending_install, pending_uninstall,
                   preserve_data, unsafe_to_uninstall, pending_unsafe,
                   remove_packages, inp>>

(***************************************************************************)
(* _main() asks for the typed confirmation before its uninstall loop when  *)
(* the target is uid 0 or the only user; main() never does.                *)
(***************************************************************************)
NeedsConfirmation ==
    /\ script = "legacy"
    /\ pending_uninstall # {}
    /\ (users[user].uid = 0 \/ Len(users) = 1)

(***************************************************************************)
(* The install loop is over (or pending_install was empty).                *)
(***************************************************************************)
InstallLoopEnd ==
    /\ pc = "install"
    /\ todo = {}
    /\ IF NeedsConfirmation
       THEN pc' = "confirm" /\ todo' = todo
       ELSE pc' = "uninstall" /\ todo' = pending_uninstall
    /\ UNCHANGED <<script, present, visible, label_delay, all_packages, users,
                   answers, user, mode, new_packages, pending_install,
                   pending_uninstall, preserve_data, unsafe_to_uninstall,
                   pending_unsafe, remove_packages, inp, errors_encountered,
                   issued>>

(***************************************************************************)
(* A faulty confirmation that lets every text through.                     *)
(***************************************************************************)
Confirmed_AnyText(text) == TRUE

(***************************************************************************)
(* if input("Confirmation: ") != "remove": return                          *)
(***************************************************************************)
Confirmed(text) == text = "remove"

Confirmation ==
    /\ pc = "confirm"
    /\ inp' \in TypedTexts
    /\ IF Confirmed(inp')
       THEN pc' = "uninstall" /\ todo' = pending_uninstall
       ELSE pc' = "exited" /\ todo' = todo
    /\ UNCHANGED <<script, present, visible, label_delay, all_packages, users,
                   answers, user, mode, new_packages, pending_install,
                   pending_uninstall, preserve_data, unsafe_to_uninstall,
                   pending_unsafe, remove_packages, errors_encountered,
                   issued>>

(***************************************************************************)
(* A faulty scope that forgets the test package in pending_unsafe.         *)
(***************************************************************************)
UninstallScope_AllUnscoped(package) ==
    IF remove_packages
    THEN NoUid
    ELSE users[user].uid

(***************************************************************************)
(* The user scope of one uninstall: none for an unsafe package when the    *)
(* operator chose to remove, the target uid otherwise.                     *)
(***************************************************************************)
UninstallScope(package) ==
    IF remove_packages /\ package \in pending_unsafe
    THEN NoUid
    ELSE users[user].uid

(***************************************************************************)
(* One round of: for package in pending_uninstall.                         *)
(***************************************************************************)
UninstallStep(package, output) ==
    /\ RunPm(uninstall(package, UninstallScope(package), preserve_data), output)
    /\ IF output = CalledProcessError
       THEN pc' = "crashed" /\ UNCHANGED <<todo, errors_encountered>>
       ELSE /\ todo' = todo \ {package}
            /\ errors_encountered' =
                   (errors_encountered \/ ~uninstall_success_regex(output))
            /\ pc' = pc

Uninstall ==
    /\ pc = "uninstall"
    /\ \E package \in todo :
          \E output \in Outcomes(uninstall(package, UninstallScope(package),
                                           preserve_data)) :
              UninstallStep(package, output)
    /\ UNCHANGED <<script, label_delay, all_packages, users, answers, user,
                   mode, new_packages, pending_install, pending_uninstall,
                   preserve_data, unsafe_to_uninstall, pending_unsafe,
                   remove_packages, inp>>

(***************************************************************************)
(* The uninstall loop is over: the run reports and ends.                   *)
(***************************************************************************)
UninstallLoopEnd ==
    /\ pc = "uninstall"
    /\ todo = {}
    /\ pc' = "done"
    /\ UNCHANGED <<script, present, visible, label_delay, all_packages, users,
                   answers, user, mode, new_packages, pending_install,
                   pending_uninstall, preserve_data, unsafe_to_uninstall,
                   pending_unsafe, remove_packages, inp, todo,
                   errors_encountered, issued>>

Next ==
    \/ GatherPackageInformation
    \/ PromptForUser
    \/ PromptForMode
    \/ PromptForPackages
    \/ PromptForPreserveData
    \/ NoUninstallPending
    \/ UnsafeDisposition
    \/ InstallExisting
    \/ InstallLoopEnd
    \/ Confirmation
    \/ Uninstall
    \/ UninstallLoopEnd

Spec == Init /\ [][Next]_vars

(***************************************************************************)
(* get_unsafe_to_uninstall on its own: the users are drawn from every      *)
(* sequence of at most ScanUsers package sets over ScanNames packages.     *)
(***************************************************************************)
ScanPackages == {Package(n, LabelOf(n)) : n \in 1..ScanNames}

UserList(sets) == [i \in 1..Len(sets) |-> User(UidOf(i), sets[i])]

InitScan ==
    /\ script = "main"
    /\ pc = "scan"
    /\ present = {}
    /\ visible = <<>>
    /\ label_delay = <<>>
    /\ all_packages = {}
    /\ \E n \in 0..ScanUsers :
           \E sets \in [1..n -> SUBSET ScanPackages] : users = UserList(sets)
    /\ answers = "unset"
    /\ user = 0
    /\ mode = "unset"
    /\ new_packages = {}
    /\ pending_install = {}
    /\ pending_uninstall = {}
    /\ preserve_data = "True"
    /\ unsafe_to_uninstall = {}
    /\ pending_unsafe = {}
    /\ remove_packages = FALSE
    /\ inp = "unset"
    /\ todo = {}
    /\ errors_encountered = FALSE
    /\ issued = EmptyBag

FindUnsafe ==
    /\ pc = "scan"
    /\ unsafe_to_uninstall' = get_unsafe_to_uninstall(users)
    /\ pc' = "scanned"
    /\ UNCHANGED <<script, present, visible, label_delay, all_packages, users,
                   answers, user, mode, new_packages, pending_install,
                   pending_uninstall, preserve_data, pending_unsafe,
                   remove_packages, inp, todo, errors_encountered, issued>>

NextScan == FindUnsafe

SpecScan == InitScan /\ [][NextScan]_vars

(***************************************************************************)
(*                              Properties                                 *)
(***************************************************************************)
Target == users[user]

PendingComputed == pc = "preserve"

(***************************************************************************)
(* C1: right after mode selection (and the checklist, in Select mode) the  *)
(* pending sets are: InstallAll, to_install = C \ U and to_uninstall = {}; *)
(* UninstallAll, to_install = {} and to_uninstall = U; Select, with the    *)
(* selection S a subset of C, to_install = S \ U and to_uninstall = U \ S. *)
(* C is all_packages, U the chosen user's packages.                        *)
(***************************************************************************)
C1_PendingSets ==
    PendingComputed =>
        LET C == all_packages
            U == Target.packages
            S == new_packages
        IN  /\ mode \in {"InstallAll", "UninstallAll", "Select"}
            /\ mode = "InstallAll" =>
                   /\ \A p \in AllPackageValues :
                          p \in pending_install <=> (p \in C /\ p \notin U)
                   /\ pending_uninstall = {}
            /\ mode = "UninstallAll" =>
                   /\ pending_install = {}
                   /\ \A p \in AllPackageValues :
                          p \in pending_uninstall <=> p \in U
            /\ mode = "Select" =>
                   /\ S \subseteq C
                   /\ \A p \in AllPackageValues :
                          p \in pending_install <=> (p \in S /\ p \notin U)
                   /\ \A p \in AllPackageValues :
                          p \in pending_uninstall <=> (p \in U /\ p \notin S)

C1_Witness ==
    /\ PendingComputed
    /\ mode = "InstallAll"
    /\ Target.packages # {}
    /\ pending_install # {}

(***************************************************************************)
(* C2: get_unsafe_to_uninstall(users) is exactly the set of packages that  *)
(* are in the package set of exactly one user, and it is the same for      *)
(* every permutation of users.                                             *)
(***************************************************************************)
InExactlyOneUser(us) ==
    {p \in ScanPackages :
        Cardinality({i \in 1..Len(us) : p \in us[i].packages}) = 1}

Permuted(us, perm) == [i \in 1..Len(us) |-> us[perm[i]]]

C2_ExactlyOneUser ==
    pc = "scanned" =>
        /\ unsafe_to_uninstall = InExactlyOneUser(users)
        /\ \A perm \in Permutations(1..Len(users)) :
               get_unsafe_to_uninstall(Permuted(users, perm)) = unsafe_to_uninstall

C2_Witness ==
    LET A == Package(1, LabelOf(1))
        B == Package(2, LabelOf(2))
        C == Package(3, LabelOf(3))
    IN  /\ pc = "scanned"
        /\ Len(users) = 2
        /\ users[1].packages = {A, B}
        /\ users[2].packages = {B, C}
        /\ unsafe_to_uninstall = {A, C}

(***************************************************************************)
(* The calls made so far.                                                  *)
(***************************************************************************)
Calls == BagToSet(issued)

UninstallIssued == \E e \in Calls : e.cmd.op = "uninstall"

(***************************************************************************)
(* The device shows every user what it showed when the run listed it.      *)
(***************************************************************************)
DeviceAsListed ==
    /\ NamesOf(all_packages) = present
    /\ \A i \in 1..Len(users) :
           NamesOf(users[i].packages) = visible[users[i].uid]

(***************************************************************************)
(* C3: when a prompt (user, mode, checklist, preserve data) returns no     *)
(* answer, the run ends and no install-existing or uninstall command has   *)
(* been issued: the device is as it was listed.                            *)
(***************************************************************************)
C3_NoAnswerNoMutation ==
    answers = "None" =>
        /\ pc = "cancelled"
        /\ issued = EmptyBag
        /\ DeviceAsListed

C3_Witness ==
    /\ answers = "None"
    /\ preserve_data = "None"
    /\ pending_install # {}
    /\ pending_uninstall # {}
    /\ pc = "cancelled"

(***************************************************************************)
(* C4 as stated: when the target is uid 0 or the only profile and          *)
(* to_uninstall is not empty, an uninstall command is issued only after    *)
(* the operator typed "remove", and after any other typed text the run is  *)
(* aborted with no command issued at all.                                  *)
(***************************************************************************)
GatedTarget ==
    /\ user # 0
    /\ (Target.uid = 0 \/ Len(users) = 1)
    /\ pending_uninstall # {}

C4_AsStated ==
    GatedTarget =>
        /\ UninstallIssued => inp = "remove"
        /\ inp \notin {"unset", "remove"} => issued = EmptyBag

(***************************************************************************)
(* C4 amended: in the legacy script _main(), when the target is uid 0 or   *)
(* the only profile and to_uninstall is not empty, an uninstall command is *)
(* issued only after the operator typed "remove" at the confirmation;      *)
(* after any other text the run ends with no uninstall command issued, and *)
(* the calls made are the install-existing calls of the install phase,     *)
(* which ran before the confirmation.                                      *)
(***************************************************************************)
C4_LegacyConfirmation ==
    (script = "legacy" /\ GatedTarget) =>
        /\ UninstallIssued => inp = "remove"
        /\ inp \notin {"unset", "remove"} =>
               /\ pc = "exited"
               /\ \A e \in Calls :
                      /\ e.cmd.op = "install-existing"
                      /\ e.cmd.name \in NamesOf(pending_install)

C4_Witness ==
    /\ script = "legacy"
    /\ GatedTarget
    /\ inp = "break"
    /\ pc = "exited"
    /\ \E e \in Calls : e.output = InstalledText

(***************************************************************************)
(* C5: a run that reaches its end has made exactly one install-existing    *)
(* call for every package of to_install and exactly one uninstall call for *)
(* every package of the final to_uninstall, whatever the calls answered,   *)
(* and errors_encountered is true exactly when some call answered a text   *)
(* other than its success line.                                            *)
(***************************************************************************)
CalledOnce(op, package) ==
    LET calls == {e \in Calls : e.cmd.op = op /\ e.cmd.name = package.name}
    IN  /\ Cardinality(calls) = 1
        /\ \A e \in calls : CopiesIn(e, issued) = 1

Mismatch(e) ==
    \/ e.cmd.op = "install-existing" /\ e.output # "Package p installed for user: u"
    \/ e.cmd.op = "uninstall" /\ e.output # "Success"

C5_BestEffort ==
    pc = "done" =>
        /\ \A p \in pending_install : CalledOnce("install-existing", p)
        /\ \A p \in pending_uninstall : CalledOnce("uninstall", p)
        /\ BagCardinality(issued) =
               Cardinality(pending_install) + Cardinality(pending_uninstall)
        /\ errors_encountered <=> \E e \in Calls : Mismatch(e)

C5_Witness ==
    /\ pc = "done"
    /\ errors_encountered
    /\ \E e \in Calls : e.cmd.op = "install-existing" /\ Mismatch(e)
    /\ \E e \in Calls : e.cmd.op = "install-existing" /\ ~Mismatch(e)
    /\ \E e \in Calls : e.cmd.op = "uninstall" /\ Mismatch(e)

(***************************************************************************)
(* C6: in main(), once the operator has answered the unsafe-uninstall      *)
(* question and the run has ended: after "remove" every package of         *)
(* to_uninstall flagged unsafe was uninstalled with no user scope and      *)
(* every other one scoped to the target uid; after "break" every package   *)
(* of to_uninstall was uninstalled scoped to the target uid; after any     *)
(* other text the unsafe packages are no longer in to_uninstall, no        *)
(* uninstall was issued for them, and the rest was uninstalled scoped to   *)
(* the target uid.                                                         *)
(***************************************************************************)
UninstallScopes(package) ==
    {e.cmd.user : e \in {c \in Calls : c.cmd.op = "uninstall" /\
                                       c.cmd.name = package.name}}

C6_Disposition ==
    (script = "main" /\ pc = "done" /\ inp # "unset") =>
        /\ inp = "remove" =>
               \A p \in pending_uninstall :
                   UninstallScopes(p) =
                       IF p \in pending_unsafe THEN {NoUid} ELSE {Target.uid}
        /\ inp = "break" =>
               \A p \in pending_uninstall : UninstallScopes(p) = {Target.uid}
        /\ inp \notin {"remove", "break"} =>
               /\ pending_unsafe \cap pending_uninstall = {}
               /\ \A p \in pending_unsafe : UninstallScopes(p) = {}
               /\ \A p \in pending_uninstall : UninstallScopes(p) = {Target.uid}

C6_Witness ==
    /\ script = "main"
    /\ pc = "done"
    /\ inp = "remove"
    /\ \E p \in pending_uninstall : UninstallScopes(p) = {NoUid}
    /\ \E p \in pending_uninstall : UninstallScopes(p) = {Target.uid}

(***************************************************************************)
(* C7: in every state of a run to_install and to_uninstall are disjoint,   *)
(* and no package of the target user's current set is in to_install.       *)
(***************************************************************************)
C7_Disjoint ==
    /\ pending_install \cap pending_uninstall = {}
    /\ user # 0 => pending_install \cap Target.packages = {}

C7_Witness ==
    /\ script = "main"
    /\ pc = "done"
    /\ inp = ""
    /\ pending_install # {}
    /\ pending_uninstall # {}
    /\ pending_unsafe # {}

(***************************************************************************)
(* C8 as stated: once the unsafe-pending subset is computed it stays a     *)
(* subset of to_uninstall, also after the operator's disposition.          *)
(***************************************************************************)
C8_AsStated == pending_unsafe \subseteq pending_uninstall

(***************************************************************************)
(* C8 amended: the unsafe-pending subset is a subset of to_uninstall when  *)
(* it is computed and after the dispositions remove and break; after skip  *)
(* (any other text) the unsafe-pending subset keeps its packages while     *)
(* to_uninstall has lost them, so the two are disjoint.                    *)
(***************************************************************************)
C8_SubsetUnlessSkipped ==
    script = "main" =>
        /\ inp \in {"unset", "remove", "break"} =>
               pending_unsafe \subseteq pending_uninstall
        /\ inp \notin {"unset", "remove", "break"} =>
               /\ pending_unsafe # {}
               /\ pending_unsafe \cap pending_uninstall = {}

C8_Witness ==
    /\ script = "main"
    /\ inp = ""
    /\ pending_unsafe # {}
    /\ pending_uninstall # {}
    /\ pc = "done"

(***************************************************************************)
(* C9 as stated: packages with equal names are one element of every set    *)
(* operation, whatever their labels: a name listed for two or more users   *)
(* is not flagged unsafe, and in Select mode a name both selected and in   *)
(* the current set is in neither to_install nor to_uninstall.              *)
(***************************************************************************)
UsersListing(name) ==
    {i \in 1..Len(users) : name \in NamesOf(users[i].packages)}

C9_EqualByName ==
    /\ pc # "gather" =>
           \A p \in get_unsafe_to_uninstall(users) :
               Cardinality(UsersListing(p.name)) = 1
    /\ (PendingComputed /\ mode = "Select") =>
           \A n \in NamesOf(new_packages) \cap NamesOf(Target.packages) :
               n \notin NamesOf(pending_install) \cup NamesOf(pending_uninstall)

(***************************************************************************)
(* C10: in Select mode, applying the pending sets as computed to the       *)
(* current set, (U \cup to_install) \ to_uninstall, gives the selection.   *)
(***************************************************************************)
C10_RoundTrip ==
    (PendingComputed /\ mode = "Select") =>
        (Target.packages \cup pending_install) \ pending_uninstall = new_packages

C10_Witness ==
    /\ PendingComputed
    /\ mode = "Select"
    /\ pending_install # {}
    /\ pending_uninstall # {}
    /\ new_packages \cap Target.packages # {}

(***************************************************************************)
(* C11: when the device reports zero users, users is the empty sequence    *)
(* and the caller deals with it before prompting: prompt_for_user is not   *)
(* entered with it, the run does not end in an uncaught error, and no      *)
(* command is issued.                                                      *)
(***************************************************************************)
C11_ZeroUsersHandled ==
    (pc # "gather" /\ Len(users) = 0) =>
        /\ pc # "prompt_user"
        /\ pc # "crashed"
        /\ issued = EmptyBag

(***************************************************************************)
(* C12: once get_users has returned, the packages of every User of users   *)
(* stay what they were for the rest of the run, in every mode and under    *)
(* every disposition.                                                      *)
(***************************************************************************)
C12_SnapshotsImmutable == [][pc # "gather" => users' = users]_vars

(***************************************************************************)
(* C13: when a run completes with every call answering its success line    *)
(* and the operator did not choose skip, the target user sees exactly the  *)
(* desired packages (catalog and current set for InstallAll, nothing for   *)
(* UninstallAll, the selection for Select) and every other user sees what  *)
(* it saw when the run listed it.                                          *)
(***************************************************************************)
Desired ==
    CASE mode = "InstallAll"   -> NamesOf(all_packages) \cup NamesOf(Target.packages)
      [] mode = "UninstallAll" -> {}
      [] mode = "Select"       -> NamesOf(new_packages)

CompletedWithoutSkip ==
    /\ pc = "done"
    /\ \A e \in Calls : ~Mismatch(e)
    /\ inp \in {"unset", "remove", "break"}

C13_EndToEnd ==
    CompletedWithoutSkip =>
        /\ visible[Target.uid] = Desired
        /\ \A i \in 1..Len(users) :
               i # user => visible[users[i].uid] = NamesOf(users[i].packages)

(***************************************************************************)
(* The end-to-end statement of C13 holds on every run in which no two      *)
(* listings gave one name different labels.                                *)
(***************************************************************************)
SameLabelEverywhere ==
    LET listed == all_packages \cup
                  UNION {users[i].packages : i \in 1..Len(users)}
    IN  \A p \in listed : \A q \in listed : p.name = q.name => p = q

EndToEndWithoutLabelMismatch == SameLabelEverywhere => C13_EndToEnd

=============================================================================
